---------------------------- MODULE Spec2Model ----------------------------
(***************************************************************************)
(* A model of the blog application of main.py: the two tables (users,      *)
(* blog_posts), the Flask-Login session slot of every client, and one      *)
(* action per route handler.  Each request runs to completion (one action) *)
(* and records what it was and how it ended in lastReq.                    *)
(***************************************************************************)
EXTENDS Integers, FiniteSets, Sequences, TLC

VARIABLES
    users,      \* table users:      id -> [username, email, password]
    posts,      \* table blog_posts: id -> [user_id, title, subtitle, date, body, img_url]
    session,    \* client -> the user id kept in its session cookie, NoId when none
    today,      \* index into Calendar of the current day (date.today())
    lastReq,    \* the request handled last, the caller it ran as, and its outcome
    pending,    \* client -> the register form of its request that has passed the
                \* existence check and not yet inserted, NoForm when none
    app         \* the configuration read from the environment and how far the
                \* module got: "importing", "serving" or "failed"

vars == <<users, posts, session, today, lastReq, pending, app>>

-----------------------------------------------------------------------------
(* Bounds *)

MaxUsers == 2       \* highest id the users table hands out
MaxPosts == 2       \* highest id the blog_posts table hands out

-----------------------------------------------------------------------------
(* Input domains *)

\* The clients that hold a session cookie.
Clients == DOMAIN session

NoId == 0           \* no '_user_id' in the session / no post id in the request
Guest == 0          \* current_user is the anonymous user

Salts == {"salt1"}

\* What a submitted form may hold.  NoForm is a GET, or a POST that
\* validate_on_submit() rejects.
NoForm == [valid |-> FALSE]

RegisterForms ==
    { [valid |-> TRUE, username |-> "A", email |-> "a@x.com", password |-> "pw1"],
      [valid |-> TRUE, username |-> "B", email |-> "b@x.com", password |-> "pw2"],
      [valid |-> TRUE, username |-> "B", email |-> "a@x.com", password |-> "pw2"] }

LoginForms ==
    { [valid |-> TRUE, email |-> e, password |-> p] :
        e \in {"a@x.com", "b@x.com"}, p \in {"pw1", "pw2"} }

PostForms ==
    { [valid |-> TRUE, title |-> "Hello", subtitle |-> "sub1", img_url |-> "img1", body |-> "body1"],
      [valid |-> TRUE, title |-> "Hello", subtitle |-> "sub2", img_url |-> "img2", body |-> "body2"],
      [valid |-> TRUE, title |-> "World", subtitle |-> "sub1", img_url |-> "img2", body |-> "body1"] }

PostIds == 1..(MaxPosts + 1)    \* ids a request may name (one is always missing)

\* The days date.today() returns, in order.
Calendar ==
    <<[year |-> 2024, month |-> 4, day |-> 5],
      [year |-> 2024, month |-> 12, day |-> 31]>>

-----------------------------------------------------------------------------
(* Helpers *)

MaxOf(S) == CHOOSE m \in S : \A x \in S : x <= m

\* INTEGER PRIMARY KEY: the store hands out the highest id in use plus one.
NewId(table) == IF DOMAIN table = {} THEN 1 ELSE MaxOf(DOMAIN table) + 1

\* db.session.add + commit of one row.
Insert(table, id, row) == [i \in DOMAIN table \cup {id} |-> IF i = id THEN row ELSE table[i]]

\* Variant: the delete hits every row.
Remove_All(table, id) == [i \in {} |-> table[i]]

\* db.session.delete + commit of one row.
Remove(table, id) == [i \in DOMAIN table \ {id} |-> table[i]]

MonthName ==
    <<"January", "February", "March", "April", "May", "June", "July",
      "August", "September", "October", "November", "December">>

\* date.strftime("%B %d, %Y"): full month name, zero-padded day, year.
Strftime(d) ==
    <<MonthName[d.month], <<d.day \div 10, d.day % 10>>, d.year>>

\* werkzeug's salted, iterated digest, a black box: equal exactly for equal
\* (password, salt).
PBKDF2(password, salt) == <<"pbkdf2:sha256", salt, password>>

generate_password_hash(password, salt) ==
    [method |-> "pbkdf2:sha256", salt |-> salt, digest |-> PBKDF2(password, salt)]

\* Variant: only the method prefix of the stored hash is looked at.
check_password_hash_MethodOnly(pwhash, password) ==
    pwhash.method = "pbkdf2:sha256"

check_password_hash(pwhash, password) ==
    pwhash.digest = PBKDF2(password, pwhash.salt)

\* load_user: the session's id resolved in the users table; a missing row
\* makes current_user the anonymous user.
load_user(user_id) == IF user_id \in DOMAIN users THEN user_id ELSE Guest

current_user(c) == IF session[c] = NoId THEN Guest ELSE load_user(session[c])

is_authenticated(u) == u # Guest

\* Variant: the select without its where clause.
UsersByEmail_NoWhere(email) == DOMAIN users

\* select(User).where(User.email == email): the ids of the matching rows.
UsersByEmail(email) == {i \in DOMAIN users : users[i].email = email}

\* Variant: the lookup filters on the username column.
email_exist_ByUsername(email) == \E i \in DOMAIN users : users[i].username = email

\* register()'s `email_exist`: the first row with that email, truthy if any.
email_exist(email) == UsersByEmail(email) # {}

\* Variant: titles are compared when a row is created only.
TitleTaken_CreateOnly(title, id) ==
    id = NoId /\ \E i \in DOMAIN posts : posts[i].title = title

\* Variant: the title column without unique=True.
TitleTaken_NotUnique(title, id) == FALSE

\* The unique constraint on blog_posts.title: another row than `id` already
\* holds `title`.
TitleTaken(title, id) == \E i \in DOMAIN posts \ {id} : posts[i].title = title

\* Variant: the email column without unique=True.
EmailTaken_NotUnique(email) == FALSE

\* The unique constraint on users.email.
EmailTaken(email) == \E i \in DOMAIN users : users[i].email = email

-----------------------------------------------------------------------------
(* The request log *)

Request(op, c, post_id, form) ==
    [op |-> op, client |-> c, post_id |-> post_id, form |-> form]

Handled(req, outcome) ==
    [op |-> req.op, client |-> req.client, post_id |-> req.post_id, form |-> req.form,
     caller |-> current_user(req.client), outcome |-> outcome]

\* The log entry of a step that handles no HTTP request.
NoRequest ==
    [op |-> "none", client |-> "c1", post_id |-> NoId, form |-> NoForm,
     caller |-> Guest, outcome |-> "none"]

StoreOp(op) == [NoRequest EXCEPT !.op = op]

Init ==
    /\ users = <<>>
    /\ posts = <<>>
    /\ session = [c \in {"c1"} |-> NoId]
    /\ today = 1
    /\ lastReq = NoRequest
    /\ pending = [c \in {"c1"} |-> NoForm]
    /\ app = [SECRET_KEY |-> "set", SQLALCHEMY_DATABASE_URI |-> "set", state |-> "serving"]

-----------------------------------------------------------------------------
(* Decorators *)

\* The views the URL map holds wrapped in login_required.  add_new_post and
\* edit_post carry @login_required ABOVE @app.route: app.route registers the
\* function it is handed, and the login_required wrapper is only bound to the
\* module-level name afterwards, so no registered view is wrapped.
LoginRequiredViews == {}

\* Variant: the comparison `current_user.id != 1`.
UserNeInt_ById(u, n) == u # n

\* `current_user != 1`: UserMixin.__ne__ answers NotImplemented for an
\* operand that is no UserMixin, int.__ne__ does too, and Python falls back
\* to identity: a user object is never the int, so the result is True.
UserNeInt(u, n) == TRUE

\* Variant: the caller is looked at before the post is resolved.
admin_or_author_CallerFirst(c, post_id) ==
    IF ~is_authenticated(current_user(c)) THEN "Forbidden"
    ELSE IF post_id \notin DOMAIN posts THEN "NotFound"
    ELSE IF UserNeInt(current_user(c), 1) /\ current_user(c) # posts[post_id].user_id
         THEN "Forbidden"
         ELSE "Admit"

\* admin_or_author's decorated_function up to the call of the view.
admin_or_author(c, post_id) ==
    IF post_id \notin DOMAIN posts THEN "NotFound"
    ELSE IF \/ ~is_authenticated(current_user(c))
            \/ (UserNeInt(current_user(c), 1) /\ current_user(c) # posts[post_id].user_id)
         THEN "Forbidden"
         ELSE "Admit"

-----------------------------------------------------------------------------
(* Session *)

\* Variant: the session is left as it was.
login_user_Noop(c, user) == session

\* flask_login.login_user: the user's id goes into the client's session.
login_user(c, user) == [session EXCEPT ![c] = user]

\* Variant: the session keeps its id.
logout_user_Noop(c) == session

\* flask_login.logout_user: the id is popped from the client's session.
logout_user(c) == [session EXCEPT ![c] = NoId]

-----------------------------------------------------------------------------
(* Views: the outcome of a request and the values it leaves behind *)

get_all_posts_view(c) == [outcome |-> "Index"]

login_view(c, form) ==
    IF ~form.valid
    THEN [outcome |-> "LoginForm", session |-> session]
    ELSE IF UsersByEmail(form.email) = {}
    THEN [outcome |-> "UnknownEmail", session |-> session]
    ELSE LET user == CHOOSE i \in UsersByEmail(form.email) : TRUE
         IN  IF check_password_hash(users[user].password, form.password)
             THEN [outcome |-> "LoggedIn", session |-> login_user(c, user)]
             ELSE [outcome |-> "WrongPassword", session |-> session]

\* The User row register() builds.
NewUser(form, salt) ==
    [username |-> form.username, email |-> form.email,
     password |-> generate_password_hash(form.password, salt)]

\* register() from generate_password_hash on: the insert, which the unique
\* constraint on users.email may refuse, and then login_user.
register_commit(c, form, salt) ==
    IF EmailTaken(form.email)
    THEN [outcome |-> "IntegrityError", users |-> users, session |-> session]
    ELSE [outcome |-> "Registered",
          users |-> Insert(users, NewId(users), NewUser(form, salt)),
          session |-> login_user(c, NewId(users))]

\* Variant: a register with a known email overwrites that identity's row.
register_view_Upsert(c, form, salt) ==
    IF ~form.valid
    THEN [outcome |-> "RegisterForm", users |-> users, session |-> session]
    ELSE IF email_exist(form.email)
    THEN [outcome |-> "DuplicateEmail",
          users |-> [i \in DOMAIN users |->
                        IF users[i].email = form.email THEN NewUser(form, salt)
                                                       ELSE users[i]],
          session |-> session]
    ELSE register_commit(c, form, salt)

\* register() up to the existence check: how the request ends there, or
\* "Pending" when it goes on to the insert.
register_check(form) ==
    IF ~form.valid THEN "RegisterForm"
    ELSE IF email_exist(form.email) THEN "DuplicateEmail"
    ELSE "Pending"

register_view(c, form, salt) ==
    IF register_check(form) # "Pending"
    THEN [outcome |-> register_check(form), users |-> users, session |-> session]
    ELSE register_commit(c, form, salt)

logout_view(c) == [outcome |-> "LoggedOut", session |-> logout_user(c)]

show_post_view(c, post_id) ==
    IF post_id \in DOMAIN posts THEN [outcome |-> "Post"] ELSE [outcome |-> "NotFound"]

\* The BlogPost row add_new_post() builds.
NewPost(form, author, day) ==
    [user_id |-> author, title |-> form.title, subtitle |-> form.subtitle,
     date |-> Strftime(Calendar[day]), body |-> form.body, img_url |-> form.img_url]

\* Variant: the anonymous user is accepted as author.
add_new_post_view_GuestAuthor(c, form) ==
    IF ~form.valid
    THEN [outcome |-> "PostForm", posts |-> posts]
    ELSE IF TitleTaken(form.title, NoId)
    THEN [outcome |-> "DuplicateTitle", posts |-> posts]
    ELSE [outcome |-> "Created",
          posts |-> Insert(posts, NewId(posts), NewPost(form, current_user(c), today))]

add_new_post_view(c, form) ==
    IF "add_new_post" \in LoginRequiredViews /\ ~is_authenticated(current_user(c))
    THEN [outcome |-> "Unauthorized", posts |-> posts]
    ELSE IF ~form.valid
    THEN [outcome |-> "PostForm", posts |-> posts]
    ELSE IF ~is_authenticated(current_user(c))
    THEN [outcome |-> "ServerError", posts |-> posts]
    ELSE IF TitleTaken(form.title, NoId)
    THEN [outcome |-> "DuplicateTitle", posts |-> posts]
    ELSE [outcome |-> "Created",
          posts |-> Insert(posts, NewId(posts), NewPost(form, current_user(c), today))]

\* Variant: the edit hands the row to identity 1.
EditedPost_ToAdmin(post, form, editor) ==
    [post EXCEPT !.title = form.title, !.subtitle = form.subtitle,
                 !.img_url = form.img_url, !.user_id = 1, !.body = form.body]

\* Variant: the edit also stamps the row with the day of the edit.
EditedPost_Redated(post, form, editor) ==
    [post EXCEPT !.title = form.title, !.subtitle = form.subtitle,
                 !.img_url = form.img_url, !.user_id = editor, !.body = form.body,
                 !.date = Strftime(Calendar[today])]

\* The assignments of edit_post() to the row.
EditedPost(post, form, editor) ==
    [post EXCEPT !.title = form.title, !.subtitle = form.subtitle,
                 !.img_url = form.img_url, !.user_id = editor, !.body = form.body]

edit_post_view(c, post_id, form) ==
    IF "edit_post" \in LoginRequiredViews /\ ~is_authenticated(current_user(c))
    THEN [outcome |-> "Unauthorized", posts |-> posts]
    ELSE IF admin_or_author(c, post_id) # "Admit"
    THEN [outcome |-> admin_or_author(c, post_id), posts |-> posts]
    ELSE IF ~form.valid
    THEN [outcome |-> "EditForm", posts |-> posts]
    ELSE IF TitleTaken(form.title, post_id)
    THEN [outcome |-> "DuplicateTitle", posts |-> posts]
    ELSE [outcome |-> "Edited",
          posts |-> [posts EXCEPT ![post_id] = EditedPost(@, form, current_user(c))]]

delete_post_view(c, post_id) ==
    IF admin_or_author(c, post_id) # "Admit"
    THEN [outcome |-> admin_or_author(c, post_id), posts |-> posts]
    ELSE [outcome |-> "Deleted", posts |-> Remove(posts, post_id)]

\* Variant: the relationship without a delete cascade.
CascadeDelete_None(table, uid) == table

\* cascade="all, delete" of User.blog_posts: the rows that stay when the
\* identity `uid` is deleted.
CascadeDelete(table, uid) ==
    [i \in {j \in DOMAIN table : table[j].user_id # uid} |-> table[i]]

-----------------------------------------------------------------------------
(* Actions: one per route *)

GetAllPosts ==
    \E c \in Clients :
        /\ lastReq' = Handled(Request("index", c, NoId, NoForm), get_all_posts_view(c).outcome)
        /\ UNCHANGED <<users, posts, session, today, pending, app>>

Login ==
    \E c \in Clients, form \in LoginForms \cup {NoForm} :
        /\ session' = login_view(c, form).session
        /\ lastReq' = Handled(Request("login", c, NoId, form), login_view(c, form).outcome)
        /\ UNCHANGED <<users, posts, today, pending, app>>

Register ==
    \E c \in Clients, form \in RegisterForms \cup {NoForm}, salt \in Salts :
        /\ register_view(c, form, salt).outcome = "Registered" => NewId(users) <= MaxUsers
        /\ users' = register_view(c, form, salt).users
        /\ session' = register_view(c, form, salt).session
        /\ lastReq' = Handled(Request("register", c, NoId, form),
                              register_view(c, form, salt).outcome)
        /\ UNCHANGED <<posts, today, pending, app>>

Logout ==
    \E c \in Clients :
        /\ session' = logout_view(c).session
        /\ lastReq' = Handled(Request("logout", c, NoId, NoForm), logout_view(c).outcome)
        /\ UNCHANGED <<users, posts, today, pending, app>>

ShowPost ==
    \E c \in Clients, post_id \in PostIds :
        /\ lastReq' = Handled(Request("show", c, post_id, NoForm),
                              show_post_view(c, post_id).outcome)
        /\ UNCHANGED <<users, posts, session, today, pending, app>>

AddNewPost ==
    \E c \in Clients, form \in PostForms \cup {NoForm} :
        /\ add_new_post_view(c, form).outcome = "Created" => NewId(posts) <= MaxPosts
        /\ posts' = add_new_post_view(c, form).posts
        /\ lastReq' = Handled(Request("new-post", c, NoId, form),
                              add_new_post_view(c, form).outcome)
        /\ UNCHANGED <<users, session, today, pending, app>>

EditPost ==
    \E c \in Clients, post_id \in PostIds, form \in PostForms \cup {NoForm} :
        /\ posts' = edit_post_view(c, post_id, form).posts
        /\ lastReq' = Handled(Request("edit-post", c, post_id, form),
                              edit_post_view(c, post_id, form).outcome)
        /\ UNCHANGED <<users, session, today, pending, app>>

DeletePost ==
    \E c \in Clients, post_id \in PostIds :
        /\ posts' = delete_post_view(c, post_id).posts
        /\ lastReq' = Handled(Request("delete", c, post_id, NoForm),
                              delete_post_view(c, post_id).outcome)
        /\ UNCHANGED <<users, session, today, pending, app>>

\* The calendar day changes between two requests.
Tick ==
    /\ today < Len(Calendar)
    /\ today' = today + 1
    /\ lastReq' = StoreOp("tick")
    /\ UNCHANGED <<users, posts, session, pending, app>>

\* An identity is deleted through the ORM, outside every route; its posts go
\* with it.  Sessions are cookies at the clients and keep the id.
RemoveIdentity ==
    \E uid \in DOMAIN users :
        /\ users' = Remove(users, uid)
        /\ posts' = CascadeDelete(posts, uid)
        /\ lastReq' = StoreOp("remove-identity")
        /\ UNCHANGED <<session, today, pending, app>>

Next ==
    \/ GetAllPosts
    \/ Login
    \/ Register
    \/ Logout
    \/ ShowPost
    \/ AddNewPost
    \/ EditPost
    \/ DeletePost
    \/ Tick

Spec == Init /\ [][Next]_vars

NextStore ==
    \/ Next
    \/ RemoveIdentity

SpecStore == Init /\ [][NextStore]_vars

-----------------------------------------------------------------------------
(* Two clients whose register requests interleave: the existence check and *)
(* the insert of one request are two steps, and the store runs each        *)
(* statement by itself.                                                    *)

InitRace ==
    /\ users = <<>>
    /\ posts = <<>>
    /\ session = [c \in {"c1", "c2"} |-> NoId]
    /\ today = 1
    /\ lastReq = NoRequest
    /\ pending = [c \in {"c1", "c2"} |-> NoForm]
    /\ app = [SECRET_KEY |-> "set", SQLALCHEMY_DATABASE_URI |-> "set", state |-> "serving"]

\* register() up to the existence check.  The request ends here on an
\* invalid form or a known email, and is in flight otherwise.
RegisterCheck ==
    \E c \in Clients, form \in RegisterForms \cup {NoForm} :
        /\ pending[c] = NoForm
        /\ pending' = IF register_check(form) = "Pending"
                      THEN [pending EXCEPT ![c] = form]
                      ELSE pending
        /\ lastReq' = Handled(Request("register", c, NoId, form), register_check(form))
        /\ UNCHANGED <<users, posts, session, today, app>>

\* The rest of an in-flight register(): hash, insert, commit, login_user.
RegisterCommit ==
    \E c \in Clients, salt \in Salts :
        /\ pending[c] # NoForm
        /\ register_commit(c, pending[c], salt).outcome = "Registered"
              => NewId(users) <= MaxUsers
        /\ users' = register_commit(c, pending[c], salt).users
        /\ session' = register_commit(c, pending[c], salt).session
        /\ pending' = [pending EXCEPT ![c] = NoForm]
        /\ lastReq' = Handled(Request("register", c, NoId, pending[c]),
                              register_commit(c, pending[c], salt).outcome)
        /\ UNCHANGED <<posts, today, app>>

NextRace ==
    \/ RegisterCheck
    \/ RegisterCommit
    \/ Login
    \/ Logout

SpecRace == InitRace /\ [][NextRace]_vars

-----------------------------------------------------------------------------
(* Startup: the module is imported with any environment *)

\* os.getenv of a variable that is not set.
None == "None"

EnvValues == {None, "set"}

InitStartup ==
    /\ users = <<>>
    /\ posts = <<>>
    /\ session = [c \in {"c1"} |-> NoId]
    /\ today = 1
    /\ lastReq = NoRequest
    /\ pending = [c \in {"c1"} |-> NoForm]
    /\ app \in { [SECRET_KEY |-> k, SQLALCHEMY_DATABASE_URI |-> u, state |-> "importing"] :
                  k \in EnvValues, u \in EnvValues }

\* The module body, lines 16 to 85.  Nothing looks at SECRET_KEY;
\* db.init_app raises when neither SQLALCHEMY_DATABASE_URI nor a bind is
\* configured, and the import stops there.
startup(config) ==
    IF config.SQLALCHEMY_DATABASE_URI = None THEN "failed" ELSE "serving"

Startup ==
    /\ app.state = "importing"
    /\ app' = [app EXCEPT !.state = startup(app)]
    /\ lastReq' = StoreOp("startup")
    /\ UNCHANGED <<users, posts, session, today, pending>>

\* Without a secret key the views that build a form (Flask-WTF needs the
\* key for the CSRF token) raise before they read or write anything.
FormRouteNoSecret ==
    \E c \in Clients, op \in {"login", "register", "new-post"} :
        /\ lastReq' = Handled(Request(op, c, NoId, NoForm), "ServerError")
        /\ UNCHANGED <<users, posts, session, today, pending, app>>

\* The routes that touch neither a form nor, for a guest, the session cookie
\* are served as ever; with no identity and no post the gated routes end
\* NotFound.
NextNoSecret ==
    \/ GetAllPosts
    \/ ShowPost
    \/ Logout
    \/ EditPost
    \/ DeletePost
    \/ FormRouteNoSecret

NextStartup ==
    \/ Startup
    \/ (app.state = "serving" /\ app.SECRET_KEY # None /\ Next)
    \/ (app.state = "serving" /\ app.SECRET_KEY = None /\ NextNoSecret)

SpecStartup == InitStartup /\ [][NextStartup]_vars

-----------------------------------------------------------------------------
(* Properties.  In an action formula lastReq' is the request the step handles *)
(* and the unprimed variables are the state it met.                           *)

\* The identity the step's request runs as, read from the state it met.
CallerOf(req) == current_user(req.client)

\* The step's request names an existing post and its caller is not that
\* post's owner (a guest included).
NotOwnerOf(req) ==
    /\ req.post_id \in DOMAIN posts
    /\ \/ CallerOf(req) = Guest
       \/ CallerOf(req) # posts[req.post_id].user_id

\* C1: an edit-post or delete request for an existing post by a guest, or by
\* an identity other than the post's owner, ends Forbidden and leaves users,
\* posts and session as they were; and a request the gate lets through
\* (any other outcome than NotFound / Forbidden) comes from the owner.
C1_OnlyOwnerAdmitted ==
    [][ lastReq'.op \in {"edit-post", "delete"} =>
          /\ NotOwnerOf(lastReq') =>
                /\ lastReq'.outcome = "Forbidden"
                /\ UNCHANGED <<users, posts, session>>
          /\ lastReq'.outcome \notin {"NotFound", "Forbidden"} =>
                /\ lastReq'.post_id \in DOMAIN posts
                /\ CallerOf(lastReq') # Guest
                /\ CallerOf(lastReq') = posts[lastReq'.post_id].user_id
      ]_vars

\* C1 witness: identity 1, logged in, was refused the delete of a post that
\* identity 2 owns.
C1_Witness ==
    /\ lastReq.op = "delete"
    /\ lastReq.outcome = "Forbidden"
    /\ lastReq.caller = 1
    /\ lastReq.post_id \in DOMAIN posts
    /\ posts[lastReq.post_id].user_id = 2

\* No two identities share an email.
UniqueEmails ==
    \A i, j \in DOMAIN users : users[i].email = users[j].email => i = j

\* C2: a valid register request whose email an existing identity has ends
\* DuplicateEmail and leaves the users table unchanged, and in every state
\* reached no two identities share an email.
C2_DuplicateEmail ==
    [][ /\ ( /\ lastReq'.op = "register"
             /\ lastReq'.form.valid
             /\ \E i \in DOMAIN users : users[i].email = lastReq'.form.email )
          => /\ lastReq'.outcome = "DuplicateEmail"
             /\ users' = users
        /\ UniqueEmails'
      ]_vars

\* C2 witness: a register with the email of an identity registered under
\* another username was refused.
C2_Witness ==
    /\ lastReq.op = "register"
    /\ lastReq.outcome = "DuplicateEmail"
    /\ \E i \in DOMAIN users :
          /\ users[i].email = lastReq.form.email
          /\ users[i].username # lastReq.form.username

\* C3: every /new-post request of an unauthenticated caller is turned away
\* by login_required (Unauthorized) before the handler body runs.
C3_RouteGate ==
    (lastReq.op = "new-post" /\ lastReq.caller = Guest)
        => lastReq.outcome = "Unauthorized"

\* The black box's contract: a hash verifies exactly the password it was
\* generated from (with the salt it carries).
Verifies(pwhash, password) ==
    pwhash = generate_password_hash(password, pwhash.salt)

\* Every value the password column can hold when it holds a salted hash.
PasswordHashes ==
    { generate_password_hash(f.password, salt) : f \in RegisterForms, salt \in Salts }

\* The ids of the identities with the email of the request's form.
Matching(req) == {i \in DOMAIN users : users[i].email = req.form.email}

\* C4: a login ends LoggedIn, and changes the client's session slot, only
\* with the session set to an identity whose stored hash verifies the
\* supplied password; a valid login with a registered email and a password
\* that does not verify ends WrongPassword with every session slot as it
\* was; and the password column only ever holds salted hashes, of which a
\* new identity's verifies the password it registered with.
C4_LoginOnlyIfVerified ==
    [][ /\ lastReq'.op = "login" =>
              /\ lastReq'.outcome = "LoggedIn" =>
                    \E u \in Matching(lastReq') :
                        /\ session'[lastReq'.client] = u
                        /\ Verifies(users[u].password, lastReq'.form.password)
              /\ session' # session => lastReq'.outcome = "LoggedIn"
              /\ ( /\ lastReq'.form.valid
                   /\ Matching(lastReq') # {}
                   /\ \A u \in Matching(lastReq') :
                          ~Verifies(users[u].password, lastReq'.form.password) )
                 => /\ lastReq'.outcome = "WrongPassword"
                    /\ session' = session
        /\ \A i \in DOMAIN users' : users'[i].password \in PasswordHashes
        /\ lastReq'.outcome = "Registered" =>
              \A i \in DOMAIN users' \ DOMAIN users :
                  Verifies(users'[i].password, lastReq'.form.password)
      ]_vars

\* C4 witness: a client logged in as one identity submitted another
\* identity's email with a password that does not verify, was answered
\* WrongPassword and still holds its session.
C4_Witness ==
    /\ lastReq.op = "login"
    /\ lastReq.outcome = "WrongPassword"
    /\ lastReq.caller # Guest
    /\ session[lastReq.client] = lastReq.caller
    /\ users[lastReq.caller].email # lastReq.form.email

\* C5: a valid create-post submission by an authenticated identity whose
\* title an existing post has ends DuplicateTitle and leaves the posts and
\* users tables unchanged.
C5_DuplicateTitle ==
    [][ ( /\ lastReq'.op = "new-post"
          /\ lastReq'.form.valid
          /\ CallerOf(lastReq') # Guest
          /\ \E i \in DOMAIN posts : posts[i].title = lastReq'.form.title )
        => /\ lastReq'.outcome = "DuplicateTitle"
           /\ UNCHANGED <<posts, users>>
      ]_vars

\* C5 witness: a create-post with the title of an existing post, and another
\* body, was refused by the store.
C5_Witness ==
    /\ lastReq.op = "new-post"
    /\ lastReq.outcome = "DuplicateTitle"
    /\ lastReq.caller # Guest
    /\ \E i \in DOMAIN posts :
          /\ posts[i].title = lastReq.form.title
          /\ posts[i].body # lastReq.form.body

\* C6: every post's user_id is set and is the id of an identity in the users
\* table, also when identities are removed at the store.
C6_NoOrphanPosts ==
    \A p \in DOMAIN posts :
        /\ posts[p].user_id # NoId
        /\ posts[p].user_id \in DOMAIN users

\* C6 witness: an identity that was logged in has been removed at the store
\* while posts of another identity remain.
C6_Witness ==
    /\ lastReq.op = "remove-identity"
    /\ posts # <<>>
    /\ \E c \in Clients : session[c] # NoId /\ session[c] \notin DOMAIN users

\* C7: for an existing post and an authenticated caller, the gate lets the
\* request through exactly when the caller is identity 1 or the post's owner.
C7_PrivilegedOrOwner ==
    [][ ( /\ lastReq'.op \in {"edit-post", "delete"}
          /\ lastReq'.post_id \in DOMAIN posts
          /\ CallerOf(lastReq') # Guest )
        => ( lastReq'.outcome # "Forbidden"
               <=> \/ CallerOf(lastReq') = 1
                   \/ CallerOf(lastReq') = posts[lastReq'.post_id].user_id )
      ]_vars

\* Every row that stays keeps its date, and an edit-post request neither
\* adds nor removes a row (the row it writes keeps its id).
DateAndIdKept ==
    /\ \A p \in DOMAIN posts \cap DOMAIN posts' : posts'[p].date = posts[p].date
    /\ lastReq'.op = "edit-post" => DOMAIN posts' = DOMAIN posts

\* The step is a valid edit-post submission that the gate admits (C1: the
\* caller owns the post).
AdmittedEdit ==
    /\ lastReq'.op = "edit-post"
    /\ lastReq'.form.valid
    /\ lastReq'.post_id \in DOMAIN posts
    /\ CallerOf(lastReq') # Guest
    /\ CallerOf(lastReq') = posts[lastReq'.post_id].user_id

\* The edited row holds the four submitted values.
FieldsSubmitted ==
    /\ posts'[lastReq'.post_id].title = lastReq'.form.title
    /\ posts'[lastReq'.post_id].subtitle = lastReq'.form.subtitle
    /\ posts'[lastReq'.post_id].img_url = lastReq'.form.img_url
    /\ posts'[lastReq'.post_id].body = lastReq'.form.body

\* C8 as stated: no step changes the id or date of a post, and every admitted
\* valid edit submission sets title, subtitle, img_url and body to the
\* submitted values.
C8_EditSetsFields ==
    [][ /\ DateAndIdKept
        /\ AdmittedEdit => FieldsSubmitted
      ]_vars

\* C8 amended: no step changes the id or date of a post, and an admitted
\* valid edit submission whose title no OTHER post holds ends Edited with
\* title, subtitle, img_url and body set to the submitted values; when
\* another post holds the title the store refuses the commit and no row
\* changes.
C8_EditSetsFieldsUnlessTitleTaken ==
    [][ /\ DateAndIdKept
        /\ AdmittedEdit =>
              IF \E i \in DOMAIN posts \ {lastReq'.post_id} :
                      posts[i].title = lastReq'.form.title
              THEN posts' = posts /\ lastReq'.outcome = "DuplicateTitle"
              ELSE FieldsSubmitted /\ lastReq'.outcome = "Edited"
      ]_vars

\* C8 witness: a post was edited on a later day than the day it was created
\* on; it holds the submitted values and still carries its creation date.
C8_Witness ==
    /\ lastReq.op = "edit-post"
    /\ lastReq.outcome = "Edited"
    /\ posts[lastReq.post_id].body = lastReq.form.body
    /\ posts[lastReq.post_id].title = lastReq.form.title
    /\ posts[lastReq.post_id].date # Strftime(Calendar[today])

\* C9: a valid login submission with an email no identity has ends
\* UnknownEmail and leaves every session slot and both tables unchanged.
C9_UnknownEmail ==
    [][ ( /\ lastReq'.op = "login"
          /\ lastReq'.form.valid
          /\ \A i \in DOMAIN users : users[i].email # lastReq'.form.email )
        => /\ lastReq'.outcome = "UnknownEmail"
           /\ UNCHANGED <<session, users, posts>>
      ]_vars

\* C9 witness: a logged-in client submitted an email nobody registered and
\* was sent to the registration page.
C9_Witness ==
    /\ lastReq.op = "login"
    /\ lastReq.outcome = "UnknownEmail"
    /\ lastReq.caller # Guest
    /\ session[lastReq.client] = lastReq.caller

\* C10: every logout request ends LoggedOut with the client's slot at guest
\* and both tables unchanged, and a logout handled in the state it leaves
\* would leave the session as it is (a second logout changes nothing more).
C10_LogoutIdempotent ==
    [][ lastReq'.op = "logout" =>
          /\ lastReq'.outcome = "LoggedOut"
          /\ session'[lastReq'.client] = NoId
          /\ UNCHANGED <<users, posts>>
          /\ (logout_view(lastReq.client).session = session)'
          /\ (logout_view(lastReq.client).outcome = "LoggedOut")'
      ]_vars

\* C10 witness: a logout was handled for a client that was already a guest,
\* with identities registered.
C10_Witness ==
    /\ lastReq.op = "logout"
    /\ lastReq.outcome = "LoggedOut"
    /\ lastReq.caller = Guest
    /\ users # <<>>

\* C11: every client's session slot is guest or the id of one identity; a
\* register that ends Registered sets the client's slot to the identity it
\* created, a login that ends LoggedIn sets it to the identity with the
\* submitted email, a logout sets it to guest, and every other request, and
\* every request for another client's slot, leaves the slot as it was.
C11_SessionSlot ==
    [][ /\ \A c \in Clients : session'[c] \in {NoId} \cup DOMAIN users'
        /\ \A c \in Clients : c # lastReq'.client => session'[c] = session[c]
        /\ CASE lastReq'.outcome = "Registered" ->
                  /\ session'[lastReq'.client] \in DOMAIN users' \ DOMAIN users
                  /\ users'[session'[lastReq'.client]].email = lastReq'.form.email
             [] lastReq'.outcome = "LoggedIn" ->
                  /\ session'[lastReq'.client] \in DOMAIN users
                  /\ users[session'[lastReq'.client]].email = lastReq'.form.email
             [] lastReq'.op = "logout" ->
                  session'[lastReq'.client] = NoId
             [] OTHER -> session' = session
      ]_vars

\* C11 witness: a client logged in as one identity registered another one
\* and its slot now holds the new identity.
C11_Witness ==
    /\ lastReq.op = "register"
    /\ lastReq.outcome = "Registered"
    /\ lastReq.caller # Guest
    /\ session[lastReq.client] # lastReq.caller
    /\ users[session[lastReq.client]].email = lastReq.form.email

\* C12: an edit-post or delete request for a post id that no post has ends
\* NotFound for every caller, guests included, and leaves both tables and
\* the session unchanged; Forbidden is only answered for an existing post.
C12_NotFoundBeforeForbidden ==
    [][ lastReq'.op \in {"edit-post", "delete"} =>
          /\ lastReq'.post_id \notin DOMAIN posts =>
                /\ lastReq'.outcome = "NotFound"
                /\ UNCHANGED <<users, posts, session>>
          /\ lastReq'.outcome = "Forbidden" => lastReq'.post_id \in DOMAIN posts
      ]_vars

\* C12 witness: a guest asked to delete a post id that does not exist, while
\* other posts do, and was answered NotFound.
C12_Witness ==
    /\ lastReq.op = "delete"
    /\ lastReq.outcome = "NotFound"
    /\ lastReq.caller = Guest
    /\ posts # <<>>

\* C14: after an edit-post request with a valid form that the gate let
\* through (any outcome but NotFound and Forbidden), the post is owned by
\* the authenticated identity that submitted the edit.
C14_EditOwnerIsSubmitter ==
    [][ ( /\ lastReq'.op = "edit-post"
          /\ lastReq'.form.valid
          /\ lastReq'.outcome \notin {"NotFound", "Forbidden"} )
        => /\ lastReq'.post_id \in DOMAIN posts'
           /\ CallerOf(lastReq') # Guest
           /\ posts'[lastReq'.post_id].user_id = CallerOf(lastReq')
      ]_vars

\* C14 witness: identity 2 edited a post and owns it.
C14_Witness ==
    /\ lastReq.op = "edit-post"
    /\ lastReq.outcome = "Edited"
    /\ lastReq.caller = 2
    /\ posts[lastReq.post_id].user_id = 2

\* A delete that ends Deleted removes the row with the request's id and no
\* other, leaves every other row and the users table as they were, and in
\* the state it leaves the id is NotFound for show, edit and delete.
DeleteExact ==
    lastReq'.outcome = "Deleted" =>
        /\ lastReq'.post_id \in DOMAIN posts
        /\ DOMAIN posts' = DOMAIN posts \ {lastReq'.post_id}
        /\ \A p \in DOMAIN posts' : posts'[p] = posts[p]
        /\ users' = users
        /\ (show_post_view(lastReq.client, lastReq.post_id).outcome = "NotFound")'
        /\ (admin_or_author(lastReq.client, lastReq.post_id) = "NotFound")'

\* C15 as stated: an admitted delete removes exactly the post with the id,
\* and the id stays NotFound afterwards (read at the first step after the
\* delete: that step leaves the id without a post).
C15_DeletedStaysGone ==
    [][ /\ DeleteExact
        /\ lastReq.outcome = "Deleted" => lastReq.post_id \notin DOMAIN posts'
      ]_vars

\* C15 amended: an admitted delete removes exactly the post with the id, the
\* id is NotFound in the state the delete leaves, and an id without a post
\* only gets one again through a create-post that ends Created (the store
\* hands out the highest id in use plus one, a freed top id included).
C15_DeletedGoneUntilRecreated ==
    [][ /\ DeleteExact
        /\ \A p \in DOMAIN posts' \ DOMAIN posts :
              /\ lastReq'.op = "new-post"
              /\ lastReq'.outcome = "Created"
              /\ p = NewId(posts)
      ]_vars

\* C15 witness: a post was deleted and another post is still there.
C15_Witness ==
    /\ lastReq.op = "delete"
    /\ lastReq.outcome = "Deleted"
    /\ lastReq.post_id \notin DOMAIN posts
    /\ posts # <<>>

\* No two posts share a title.
UniqueTitles ==
    \A i, j \in DOMAIN posts : posts[i].title = posts[j].title => i = j

\* C16: no two posts ever share a title; a valid edit by the post's owner
\* with the title of another post ends DuplicateTitle and leaves every post
\* unchanged, and one with the post's own title ends Edited.
C16_UniqueTitles ==
    [][ /\ UniqueTitles'
        /\ AdmittedEdit =>
              /\ (\E i \in DOMAIN posts \ {lastReq'.post_id} :
                      posts[i].title = lastReq'.form.title)
                 => (lastReq'.outcome = "DuplicateTitle" /\ posts' = posts)
              /\ posts[lastReq'.post_id].title = lastReq'.form.title
                 => (lastReq'.outcome = "Edited" /\ FieldsSubmitted)
      ]_vars

\* C16 witness: an owner's edit asked for the title of another post and was
\* refused by the store.
C16_Witness ==
    /\ lastReq.op = "edit-post"
    /\ lastReq.outcome = "DuplicateTitle"
    /\ posts[lastReq.post_id].title # lastReq.form.title
    /\ \E i \in DOMAIN posts : posts[i].title = lastReq.form.title

\* C17: no request removes or rewrites an identity: every row of the users
\* table stays, with the same username, email and password hash under the
\* same id, and the table only gets a row by a register that ends Registered.
C17_IdentitiesOnlyGrow ==
    [][ /\ \A i \in DOMAIN users : i \in DOMAIN users' /\ users'[i] = users[i]
        /\ DOMAIN users' # DOMAIN users =>
              /\ lastReq'.op = "register"
              /\ lastReq'.outcome = "Registered"
              /\ Cardinality(DOMAIN users') = Cardinality(DOMAIN users) + 1
      ]_vars

\* C17 witness: a register added a second identity next to the first.
C17_Witness ==
    /\ lastReq.op = "register"
    /\ lastReq.outcome = "Registered"
    /\ Cardinality(DOMAIN users) = 2

\* C18: no step changes the user_id of a post that stays, and a post that
\* appears is owned by the authenticated identity whose create-post made it;
\* so every post is owned by its creator.
C18_OwnerNeverChanges ==
    [][ /\ \A p \in DOMAIN posts \cap DOMAIN posts' :
              posts'[p].user_id = posts[p].user_id
        /\ \A p \in DOMAIN posts' \ DOMAIN posts :
              /\ lastReq'.outcome = "Created"
              /\ CallerOf(lastReq') # Guest
              /\ posts'[p].user_id = CallerOf(lastReq')
      ]_vars

\* C18 witness: with two identities registered, identity 1 edited its post
\* (the edit assigns the author) and still owns it, next to a post of
\* identity 2.
C18_Witness ==
    /\ lastReq.op = "edit-post"
    /\ lastReq.outcome = "Edited"
    /\ lastReq.caller = 1
    /\ posts[lastReq.post_id].user_id = 1
    /\ \E p \in DOMAIN posts : posts[p].user_id = 2

\* C19: a request handled for a guest leaves the posts table unchanged; a
\* guest's valid create-post submission is not turned away at the route (it
\* fails inside the handler, ServerError) and persists nothing; no post has
\* the guest or no identity as owner.
C19_GuestNeverWritesPosts ==
    [][ /\ (lastReq'.op \notin {"none", "tick"} /\ CallerOf(lastReq') = Guest)
              => posts' = posts
        /\ ( /\ lastReq'.op = "new-post"
             /\ lastReq'.form.valid
             /\ CallerOf(lastReq') = Guest )
              => lastReq'.outcome = "ServerError"
        /\ \A p \in DOMAIN posts' : posts'[p].user_id \notin {Guest, NoId}
      ]_vars

\* C19 witness: a guest submitted a valid create-post form whose title no
\* post has, and the posts that exist are the ones there were.
C19_Witness ==
    /\ lastReq.op = "new-post"
    /\ lastReq.outcome = "ServerError"
    /\ lastReq.caller = Guest
    /\ posts # <<>>
    /\ \A p \in DOMAIN posts : posts[p].title # lastReq.form.title

\* C13: the application never serves a request with the secret key or the
\* database URL missing: whenever a request has been handled, both are set.
C13_FailFast ==
    lastReq.op \notin {"none", "startup"}
        => (app.SECRET_KEY # None /\ app.SQLALCHEMY_DATABASE_URI # None)

\* The step is the insert of an in-flight register request.
IsRegisterCommit ==
    /\ lastReq'.op = "register"
    /\ pending[lastReq'.client] # NoForm
    /\ pending'[lastReq'.client] = NoForm

\* C20: when register requests interleave between check and insert, no two
\* identities ever share an email: the insert of a request whose email has
\* been taken since its check ends IntegrityError and leaves the users table
\* and every session as they were, and a register request changes a session
\* only when its own insert succeeded, to the identity it created.
C20_RegisterRace ==
    [][ /\ UniqueEmails'
        /\ ( /\ IsRegisterCommit
             /\ \E i \in DOMAIN users : users[i].email = lastReq'.form.email )
           => /\ lastReq'.outcome = "IntegrityError"
              /\ UNCHANGED <<users, session>>
        /\ (lastReq'.op = "register" /\ session' # session)
           => /\ IsRegisterCommit
              /\ lastReq'.outcome = "Registered"
              /\ session'[lastReq'.client] \in DOMAIN users' \ DOMAIN users
              /\ users'[session'[lastReq'.client]].email = lastReq'.form.email
              /\ \A c \in Clients : c # lastReq'.client => session'[c] = session[c]
      ]_vars

\* C20 witness: the insert of one client's register was refused by the
\* store because the other client's register with the same email, checked
\* at the same time, had inserted first; the other client holds the session
\* of the identity and the refused client holds none.
C20_Witness ==
    /\ lastReq.op = "register"
    /\ lastReq.outcome = "IntegrityError"
    /\ session[lastReq.client] = NoId
    /\ \E c \in Clients \ {lastReq.client} :
          /\ session[c] \in DOMAIN users
          /\ users[session[c]].email = lastReq.form.email

=============================================================================
